---------------------------- MODULE Spec2Model ----------------------------
(***************************************************************************)
(* Model of the loan-application intake server (src/app.py).               *)
(*                                                                         *)
(* Text is modelled as a sequence of one-character tokens, so that         *)
(* str.strip, str.lower, str.replace, the regular expressions and the      *)
(* path formatting are computed as the code computes them.  A character    *)
(* outside ASCII is a token named after its code point.                    *)
(***************************************************************************)
EXTENDS Integers, Sequences, FiniteSets, TLC

(***************************************************************************)
(* Characters                                                              *)
(***************************************************************************)
\* U+0660 ARABIC-INDIC DIGIT ZERO: a decimal digit for \d and int(), not ASCII.
ARABIC_ZERO == "U+0660"
\* U+00E9 LATIN SMALL LETTER E WITH ACUTE: a letter outside ASCII.
E_ACUTE == "U+00E9"

AsciiDigit == {"0", "1", "2", "3", "4", "5", "6", "7", "8", "9"}
\* what \d matches in a str pattern (Unicode decimal digits)
Digit == AsciiDigit \cup {ARABIC_ZERO}
\* what str.strip() removes and \s matches
Whitespace == {" ", "\t", "\n"}
UpperSeq == <<"A","B","C","D","E","F","G","H","I","J","K","L","M",
              "N","O","P","Q","R","S","T","U","V","W","X","Y","Z">>
LowerSeq == <<"a","b","c","d","e","f","g","h","i","j","k","l","m",
              "n","o","p","q","r","s","t","u","v","w","x","y","z">>
AsciiUpper == {UpperSeq[i] : i \in DOMAIN UpperSeq}
AsciiLower == {LowerSeq[i] : i \in DOMAIN LowerSeq}
\* [A-Za-z]
AsciiLetter == AsciiUpper \cup AsciiLower
NonAscii == {ARABIC_ZERO, E_ACUTE}

DigitVal(c) ==
    CASE c = "0" -> 0 [] c = "1" -> 1 [] c = "2" -> 2 [] c = "3" -> 3
      [] c = "4" -> 4 [] c = "5" -> 5 [] c = "6" -> 6 [] c = "7" -> 7
      [] c = "8" -> 8 [] c = "9" -> 9 [] c = ARABIC_ZERO -> 0

(***************************************************************************)
(* str methods                                                             *)
(***************************************************************************)
RECURSIVE LStrip(_)
LStrip(s) ==
    IF s = <<>> THEN <<>>
    ELSE IF Head(s) \in Whitespace THEN LStrip(Tail(s)) ELSE s

RECURSIVE RStrip(_)
RStrip(s) ==
    IF s = <<>> THEN <<>>
    ELSE IF s[Len(s)] \in Whitespace THEN RStrip(SubSeq(s, 1, Len(s) - 1)) ELSE s

\* str.strip()
Strip(s) == RStrip(LStrip(s))

LowerChar(c) ==
    IF c \in AsciiUpper
    THEN LowerSeq[CHOOSE i \in DOMAIN UpperSeq : UpperSeq[i] = c]
    ELSE c

\* str.lower()
Lower(s) == [i \in 1..Len(s) |-> LowerChar(s[i])]

\* str.replace(old, new) for single characters
Replace(s, old, new) == [i \in 1..Len(s) |-> IF s[i] = old THEN new ELSE s[i]]

\* str(int) for a non-negative integer
RECURSIVE NatToStr(_)
NatToStr(n) ==
    LET d == CHOOSE c \in AsciiDigit : DigitVal(c) = n % 10
    IN  IF n < 10 THEN <<d>> ELSE NatToStr(n \div 10) \o <<d>>

IntToStr(n) == IF n < 0 THEN <<"-">> \o NatToStr(0 - n) ELSE NatToStr(n)

(***************************************************************************)
(* dict access                                                             *)
(***************************************************************************)
\* the value Python's None is given in a stored row
None == <<"None">>
EmptyMap == <<>>

\* not form.get(k): the key is absent or its value is the empty string
Falsy(form, k) == k \notin DOMAIN form \/ form[k] = <<>>
\* form.get(k) or ""
Get(form, k) == IF k \in DOMAIN form THEN form[k] ELSE <<>>
\* form.get(k)
GetOrNone(form, k) == IF k \in DOMAIN form THEN form[k] ELSE None
\* d[k] = v
Put(d, k, v) == [x \in DOMAIN d \cup {k} |-> IF x = k THEN v ELSE d[x]]
\* d without the key k
Without(d, k) == [x \in DOMAIN d \ {k} |-> d[x]]

(***************************************************************************)
(* Regular expressions (re.match): a pattern is run over the set of        *)
(* positions the match can have reached.                                   *)
(***************************************************************************)
\* one character of class C
Step(P, C, s) == {p + 1 : p \in {q \in P : q <= Len(s) /\ s[q] \in C}}
\* C?
Opt(P, C, s) == P \cup Step(P, C, s)
\* C*
RECURSIVE Star(_, _, _)
Star(P, C, s) ==
    LET N == P \cup Step(P, C, s) IN IF N = P THEN P ELSE Star(N, C, s)
\* C{n}
RECURSIVE Rep(_, _, _, _)
Rep(P, C, n, s) == IF n = 0 THEN P ELSE Rep(Step(P, C, s), C, n - 1, s)
\* the classes cs match at position p
Ahead(p, cs, s) ==
    /\ p + Len(cs) - 1 <= Len(s)
    /\ \A i \in 1..Len(cs) : s[p + i - 1] \in cs[i]
\* (?!cs)
NotAhead(P, cs, s) == {p \in P : ~Ahead(p, cs, s)}
\* $: the end of the string, or just before a final newline
AtEnd(P, s) == \E p \in P : p = Len(s) + 1 \/ (p = Len(s) /\ s[p] = "\n")

\* r'^(?!000|666|9\d\d)(\d{3})-(?!00)(\d{2})-(?!0000)(\d{4})$'
SSN_RE(s) ==
    LET p0 == NotAhead(NotAhead(NotAhead({1}, <<{"0"}, {"0"}, {"0"}>>, s),
                                <<{"6"}, {"6"}, {"6"}>>, s),
                       <<{"9"}, Digit, Digit>>, s)
        p1 == Step(Rep(p0, Digit, 3, s), {"-"}, s)
        p2 == Step(Rep(NotAhead(p1, <<{"0"}, {"0"}>>, s), Digit, 2, s), {"-"}, s)
        p3 == Rep(NotAhead(p2, <<{"0"}, {"0"}, {"0"}, {"0"}>>, s), Digit, 4, s)
    IN  AtEnd(p3, s)

\* r'^(?!00)\d{2}-\d{7}$'
EIN_RE(s) ==
    LET p0 == NotAhead({1}, <<{"0"}, {"0"}>>, s)
        p1 == Step(Rep(p0, Digit, 2, s), {"-"}, s)
    IN  AtEnd(Rep(p1, Digit, 7, s), s)

\* r'^\+?1?\s*\(?\d{3}\)?[\s.-]*\d{3}[\s.-]*\d{4}$'
PHONE_RE(s) ==
    LET sep == Whitespace \cup {".", "-"}
        p0 == Star(Opt(Opt({1}, {"+"}, s), {"1"}, s), Whitespace, s)
        p1 == Opt(Rep(Opt(p0, {"("}, s), Digit, 3, s), {")"}, s)
        p2 == Rep(Star(p1, sep, s), Digit, 3, s)
        p3 == Rep(Star(p2, sep, s), Digit, 4, s)
    IN  AtEnd(p3, s)

\* r'^\d{5}(-\d{4})?$'
ZIP_RE(s) ==
    LET p0 == Rep({1}, Digit, 5, s)
    IN  AtEnd(p0 \cup Rep(Step(p0, {"-"}, s), Digit, 4, s), s)

\* r'^[A-Za-z]{2}$'
STATE_RE(s) == AtEnd(Rep({1}, AsciiLetter, 2, s), s)

\* r'^\d{3}$'
FICO_RE(s) == AtEnd(Rep({1}, Digit, 3, s), s)

\* int(v) for a string of decimal digits
RECURSIVE ParseInt(_)
ParseInt(s) ==
    IF s = <<>> THEN 0
    ELSE 10 * ParseInt(SubSeq(s, 1, Len(s) - 1)) + DigitVal(s[Len(s)])

FICO_MIN == 300
FICO_MAX == 850

\* value is form.get(k): None when the key is absent
_is_valid_fico(form, k) ==
    IF k \notin DOMAIN form THEN TRUE
    ELSE LET v == Strip(form[k])
         IN  IF v = <<>> THEN TRUE
             ELSE IF ~FICO_RE(v) THEN FALSE
             \* int() does not accept the newline that $ lets through; v is stripped
             ELSE FICO_MIN <= ParseInt(v) /\ ParseInt(v) <= FICO_MAX

(***************************************************************************)
(* Validation                                                              *)
(***************************************************************************)
YES == <<"Y", "e", "s">>
NO == <<"N", "o">>

req ==
    <<"business_legal_name", "industry", "legal_entity", "business_start_date", "ein",
      "company_address1", "company_city", "company_state", "company_zip",
      "owner_0_first", "owner_0_last", "owner_0_pct", "owner_0_dob", "owner_0_ssn",
      "owner_0_email", "owner_0_mobile",
      "own_real_estate", "own_home_location", "own_business_location",
      "esign_consent",
      "signature_data", "signature_date", "signature_print_name">>

real_estate_req == <<"residence_tenure", "business_location_tenure">>

owner1_req ==
    <<"owner_1_first", "owner_1_last", "owner_1_pct", "owner_1_dob", "owner_1_ssn",
      "owner_1_email", "owner_1_mobile",
      "owner_1_addr1", "owner_1_city", "owner_1_state", "owner_1_zip">>

\* for k in keys: if not form.get(k): errors[k] = 'Required'
RECURSIVE RequireAll(_, _, _)
RequireAll(errors, form, keys) ==
    IF keys = <<>> THEN errors
    ELSE RequireAll(IF Falsy(form, Head(keys))
                    THEN Put(errors, Head(keys), "Required") ELSE errors,
                    form, Tail(keys))

\* if form.get(k) and not RE.match(form[k]): errors[k] = msg
CheckPattern(errors, form, k, matches, msg) ==
    IF ~Falsy(form, k) /\ ~matches THEN Put(errors, k, msg) ELSE errors

\* a real-estate rule that applies unless the flag says "No"
real_estate_unless_no(form) == Get(form, "own_real_estate") # NO

\* form.get('own_real_estate') == 'Yes'
owns_real_estate(form) == Get(form, "own_real_estate") = YES

\* the toggle as validate_fields and submit read it
ToggleOf(form) == Strip(IF Falsy(form, "has_owner_1") THEN NO ELSE form["has_owner_1"])

\* a validate_fields that checks the second owner whatever the toggle says
ToggleUngated(form) == YES

has_owner_1_of(form) == ToggleOf(form)

validate_fields(form) ==
    LET e1 == RequireAll(EmptyMap, form, req)
        e2 == IF owns_real_estate(form)
              THEN RequireAll(e1, form, real_estate_req) ELSE e1
        has_owner_1 == has_owner_1_of(form)
        e3 == IF has_owner_1 = YES THEN RequireAll(e2, form, owner1_req) ELSE e2
        e4 == CheckPattern(e3, form, "ein", EIN_RE(Get(form, "ein")),
                           "Invalid EIN (##-#######)")
        e5 == CheckPattern(e4, form, "owner_0_ssn", SSN_RE(Get(form, "owner_0_ssn")),
                           "Invalid SSN (###-##-####)")
        e6 == CheckPattern(e5, form, "owner_0_mobile",
                           PHONE_RE(Get(form, "owner_0_mobile")), "Invalid phone number")
        e7 == CheckPattern(e6, form, "company_zip", ZIP_RE(Get(form, "company_zip")),
                           "Invalid ZIP")
        e8 == CheckPattern(e7, form, "company_state",
                           STATE_RE(Get(form, "company_state")), "Use 2-letter state")
        e9 == IF ~_is_valid_fico(form, "owner_0_fico")
              THEN Put(e8, "owner_0_fico", "FICO must be 300-850") ELSE e8
        e10 == IF has_owner_1 = YES /\ ~_is_valid_fico(form, "owner_1_fico")
               THEN Put(e9, "owner_1_fico", "FICO must be 300-850") ELSE e9
        e11 == IF has_owner_1 = YES
               THEN LET a == CheckPattern(e10, form, "owner_1_ssn",
                                          SSN_RE(Get(form, "owner_1_ssn")),
                                          "Invalid SSN (###-##-####)")
                        b == CheckPattern(a, form, "owner_1_mobile",
                                          PHONE_RE(Get(form, "owner_1_mobile")),
                                          "Invalid phone number")
                        c == CheckPattern(b, form, "owner_1_zip",
                                          ZIP_RE(Get(form, "owner_1_zip")), "Invalid ZIP")
                    IN  CheckPattern(c, form, "owner_1_state",
                                     STATE_RE(Get(form, "owner_1_state")),
                                     "Use 2-letter state")
               ELSE e10
    IN  IF ~Falsy(form, "esign_consent") /\ form["esign_consent"] # YES
        THEN Put(e11, "esign_consent", "Consent is required") ELSE e11

(***************************************************************************)
(* Field values the requests are built from                                *)
(***************************************************************************)
EIN_OK == <<"1", "2", "-", "3", "4", "5", "6", "7", "8", "9">>
EIN_LEADING_00 == <<"0", "0", "-", "1", "2", "3", "4", "5", "6", "7">>
EIN_SHORT == <<"1", "2", "-", "3", "4", "5", "6", "7", "8">>
SSN_OK == <<"1", "2", "3", "-", "4", "5", "-", "6", "7", "8", "9">>
SSN_OK_2 == <<"0", "7", "8", "-", "0", "5", "-", "1", "1", "2", "0">>
SSN_AREA_000 == <<"0", "0", "0", "-", "1", "2", "-", "3", "4", "5", "6">>
SSN_AREA_666 == <<"6", "6", "6", "-", "1", "2", "-", "3", "4", "5", "6">>
SSN_AREA_9XX == <<"9", "1", "2", "-", "1", "2", "-", "3", "4", "5", "6">>
SSN_GROUP_00 == <<"1", "2", "3", "-", "0", "0", "-", "6", "7", "8", "9">>
SSN_SERIAL_0000 == <<"1", "2", "3", "-", "4", "5", "-", "0", "0", "0", "0">>
SSN_NO_HYPHENS == <<"1", "2", "3", "4", "5", "6", "7", "8", "9">>
SSN_LETTERS == <<"a", "b", "c", "-", "d", "e", "-", "f", "g", "h", "i">>
SSN_LONG == <<"1", "2", "3", "-", "4", "5", "-", "6", "7", "8", "9", "0">>
PHONE_OK == <<"5", "5", "5", "-", "1", "2", "3", "-", "4", "5", "6", "7">>
PHONE_OK_PLUS == <<"+", "1", " ", "(", "5", "5", "5", ")", " ", "1", "2", "3", ".", "4", "5", "6", "7">>
PHONE_SHORT == <<"5", "5", "5", "-", "1", "2", "3", "4">>
ZIP_OK == <<"1", "2", "3", "4", "5">>
ZIP_PLUS4 == <<"1", "2", "3", "4", "5", "-", "6", "7", "8", "9">>
ZIP_BAD == <<"1", "2", "3", "4">>
STATE_OK == <<"N", "Y">>
STATE_BAD == <<"N", "1">>
STATE_LONG == <<"N", "Y", "C">>
FICO_OK == <<"7", "0", "0">>
FICO_LOW == <<"2", "9", "9">>
FICO_HIGH == <<"8", "5", "1">>
FICO_LETTERS == <<"a", "b", "c">>

SSN_ARABIC_000 == <<ARABIC_ZERO, ARABIC_ZERO, ARABIC_ZERO, "-", "1", "2", "-", "3", "4", "5", "6">>
FICO_ARABIC == <<"7", ARABIC_ZERO, ARABIC_ZERO>>
WORD == <<"a">>
JANE == <<"J", "a", "n", "e">>
DOE == <<"D", "o", "e">>
MARY_ANN == <<"M", "a", "r", "y", " ", "A", "n", "n">>
AL == <<"A", "l">>
ROE == <<"R", "o", "e">>

\* the values the specification's examples call invalid SSNs, and other malformed ones
MalformedSSNs ==
    {SSN_AREA_000, SSN_AREA_666, SSN_AREA_9XX, SSN_GROUP_00, SSN_SERIAL_0000,
     SSN_NO_HYPHENS, SSN_LETTERS, SSN_LONG}

ReqKeys == {req[i] : i \in DOMAIN req}
Owner1Keys == {owner1_req[i] : i \in DOMAIN owner1_req}
\* every owner_1_* key validate_fields can report
Owner1ErrorKeys == Owner1Keys \cup {"owner_1_fico"}
\* every owner_1_* field of the form
Owner1FieldNames == Owner1ErrorKeys \cup {"owner_1_addr2", "owner_1_mca_balances"}

\* a form that passes validation: every required field, no second owner, no toggle
BaseForm ==
    [k \in ReqKeys |->
        CASE k = "ein" -> EIN_OK
          [] k = "company_state" -> STATE_OK
          [] k = "company_zip" -> ZIP_OK
          [] k = "owner_0_first" -> JANE
          [] k = "owner_0_last" -> DOE
          [] k = "owner_0_ssn" -> SSN_OK
          [] k = "owner_0_mobile" -> PHONE_OK
          [] k = "own_real_estate" -> NO
          [] k = "esign_consent" -> YES
          [] OTHER -> WORD]

\* the second owner's fields, all well-formed
Owner1Fields ==
    [k \in Owner1Keys |->
        CASE k = "owner_1_first" -> AL
          [] k = "owner_1_last" -> ROE
          [] k = "owner_1_ssn" -> SSN_OK_2
          [] k = "owner_1_mobile" -> PHONE_OK_PLUS
          [] k = "owner_1_state" -> STATE_OK
          [] k = "owner_1_zip" -> ZIP_PLUS4
          [] OTHER -> WORD]

TenureFields == [k \in {"residence_tenure", "business_location_tenure"} |-> WORD]

\* one field of a form set to each of the values, or removed
Vary(form, k, values) == {Put(form, k, v) : v \in values} \cup {Without(form, k)}

\* the second owner's fields with at most one of them missing, empty or malformed
Owner1Variants ==
    LET full == BaseForm @@ Owner1Fields
    IN  {full}
          \cup UNION {Vary(full, k, {<<>>}) : k \in Owner1Keys}
          \cup Vary(full, "owner_1_ssn", MalformedSSNs \cup {SSN_ARABIC_000})
          \cup {Put(full, "owner_1_mobile", PHONE_SHORT), Put(full, "owner_1_zip", ZIP_BAD),
                Put(full, "owner_1_state", STATE_BAD), Put(full, "owner_1_fico", FICO_LOW),
                Put(full, "owner_1_fico", FICO_OK)}

ToggleValues == {YES, NO, <<"y", "e", "s">>, <<"Y">>, <<"Y", "E", "S">>}

\* the mappings validate_fields is applied to.  submit trims every value before
\* it validates (line 613), so the values carry no surrounding whitespace.
ValidateInputs ==
    UNION {Vary(f, "has_owner_1", ToggleValues \cup {<<>>}) : f \in Owner1Variants}
      \cup Vary(BaseForm, "has_owner_1", ToggleValues)
      \cup Vary(BaseForm, "owner_0_ssn",
                MalformedSSNs \cup {SSN_OK_2, SSN_ARABIC_000, <<>>})
      \cup Vary(BaseForm, "ein", {EIN_LEADING_00, EIN_SHORT})
      \cup Vary(BaseForm, "owner_0_mobile", {PHONE_OK_PLUS, PHONE_SHORT})
      \cup Vary(BaseForm, "company_zip", {ZIP_PLUS4, ZIP_BAD})
      \cup Vary(BaseForm, "company_state", {STATE_BAD, STATE_LONG})
      \cup Vary(BaseForm, "owner_0_fico",
                {FICO_OK, FICO_LOW, FICO_HIGH, FICO_LETTERS, FICO_ARABIC, <<>>})
      \cup Vary(BaseForm, "esign_consent", {NO, <<"y", "e", "s">>})
      \cup Vary(BaseForm, "own_real_estate", {YES})
      \cup Vary(BaseForm @@ TenureFields, "own_real_estate", {YES})
      \cup Vary(Put(BaseForm, "own_real_estate", YES) @@ TenureFields,
                "residence_tenure", {<<>>})

(***************************************************************************)
(* Rep attribution                                                         *)
(***************************************************************************)
TEAM_EMAIL == <<"t", "e", "a", "m", "@", "p", "a", "t", "h", "w", "a", "y", "c", "a", "t", "a", "l", "y", "s", "t", ".", "c", "o", "m">>

SALES_REPS ==
    (<<"y", "u", "l", "y">> :>
        [name |-> <<"Y", "u", "l", "y">>,
         email |-> <<"d", "e", "a", "l", "s", "@", "p", "a", "t", "h", "w", "a", "y", "c", "a", "t", "a", "l", "y", "s", "t", ".", "c", "o", "m">>])
      @@ (<<"t", "o", "m">> :>
        [name |-> <<"T", "o", "m">>,
         email |-> <<"t", "o", "m", "@", "p", "a", "t", "h", "w", "a", "y", "c", "a", "t", "a", "l", "y", "s", "t", ".", "c", "o", "m">>])
      @@ (<<"t", "r", "o", "y">> :>
        [name |-> <<"T", "r", "o", "y">>,
         email |-> <<"t", "r", "o", "y", "@", "p", "a", "t", "h", "w", "a", "y", "c", "a", "t", "a", "l", "y", "s", "t", ".", "c", "o", "m">>])
      @@ (<<"a", "d", "r", "i", "a", "n">> :>
        [name |-> <<"A", "d", "r", "i", "a", "n">>,
         email |-> <<"a", "d", "r", "i", "a", "n", "@", "p", "a", "t", "h", "w", "a", "y", "c", "a", "t", "a", "l", "y", "s", "t", ".", "c", "o", "m">>])
      @@ (<<"f", "r", "a", "n", "k">> :>
        [name |-> <<"F", "r", "a", "n", "k">>,
         email |-> <<"f", "r", "a", "n", "k", "@", "p", "a", "t", "h", "w", "a", "y", "c", "a", "t", "a", "l", "y", "s", "t", ".", "c", "o", "m">>])
      @@ (<<"a", "n", "d", "r", "e", "s">> :>
        [name |-> <<"A", "n", "d", "r", "e", "s">>,
         email |-> <<"a", "n", "d", "r", "e", "s", "@", "p", "a", "t", "h", "w", "a", "y", "c", "a", "t", "a", "l", "y", "s", "t", ".", "c", "o", "m">>])

\* get_rep_info's None
NoRep == [none |-> TRUE]

get_rep_info(rep_code) ==
    IF rep_code = <<>> THEN NoRep
    ELSE LET c == Strip(Lower(rep_code))
         IN  IF c \in DOMAIN SALES_REPS THEN SALES_REPS[c] ELSE NoRep

\* os.environ.get("APP_SECRET", "dev-secret")
APP_SECRET == <<"d", "e", "v", "-", "s", "e", "c", "r", "e", "t">>

\* hmac.new(key, msg, sha256).hexdigest(): the digest is taken to be free of
\* collisions, so it is written as the pair it was computed from.  It is ASCII
\* and has no whitespace at either end, as a hex digest.
HmacHex(key, msg) == <<"#">> \o key \o <<":">> \o msg

sign_rep_code(rep_code) == HmacHex(APP_SECRET, Strip(Lower(rep_code)))

\* hmac.compare_digest(a, b) raises TypeError for a str with a non-ASCII character
compare_digest_raises(a, b) == \E i \in 1..Len(b) : b[i] \in NonAscii

\* a verification that accepts every signature
verify_accept_all(rep_code, signature) == TRUE

verify_rep_code(rep_code, signature) ==
    IF rep_code = <<>> \/ signature = <<>> THEN rep_code = <<>>
    ELSE sign_rep_code(rep_code) = signature

\* the call verify_rep_code(rep_code, signature) ends in an exception
verify_rep_code_raises(rep_code, signature) ==
    /\ rep_code # <<>> /\ signature # <<>>
    /\ compare_digest_raises(sign_rep_code(rep_code), signature)

(***************************************************************************)
(* Submission assembly                                                     *)
(***************************************************************************)
\* the decimal places a loan amount is kept to
LoanDecimals == 2

RECURSIVE Pow10(_)
Pow10(n) == IF n = 0 THEN 1 ELSE 10 * Pow10(n - 1)

\* float(s) for strings of signs, decimal digits and points: whether it parses,
\* and the value in units of 10^-LoanDecimals.  (float also reads exponents,
\* "inf", "nan" and digit-group underscores; the requests use none of them.)
ParseFloat(s) ==
    LET neg == s # <<>> /\ s[1] = "-"
        body == IF s # <<>> /\ s[1] \in {"+", "-"} THEN Tail(s) ELSE s
        dots == {i \in 1..Len(body) : body[i] = "."}
        d == IF dots = {} THEN Len(body) + 1 ELSE CHOOSE i \in dots : TRUE
        int == SubSeq(body, 1, d - 1)
        frac == SubSeq(body, d + 1, Len(body))
        ok == /\ Cardinality(dots) <= 1
              /\ Len(int) + Len(frac) > 0
              /\ \A i \in 1..Len(body) : i \in dots \/ body[i] \in Digit
        mag == ParseInt(int) * Pow10(LoanDecimals)
                 + (ParseInt(frac) * Pow10(LoanDecimals)) \div Pow10(Len(frac))
    IN  IF ok THEN [ok |-> TRUE, value |-> IF neg THEN 0 - mag ELSE mag]
        ELSE [ok |-> FALSE, value |-> 0]

\* try: float(form.get("loan_amount") or 0)  except Exception: 0.0
loan_amount_of(form) ==
    IF Falsy(form, "loan_amount") THEN 0 ELSE ParseFloat(form["loan_amount"]).value

\* (first + " " + last).strip() of owner i, or no entry when both are empty
OwnerEntry(form, first_key, last_key) ==
    LET first == Strip(Get(form, first_key))
        last == Strip(Get(form, last_key))
    IN  IF first # <<>> \/ last # <<>> THEN <<Strip(first \o <<" ">> \o last)>> ELSE <<>>

\* an owners list that takes the second owner whatever the toggle says
owners_untoggled(form) ==
    OwnerEntry(form, "owner_0_first", "owner_0_last")
      \o OwnerEntry(form, "owner_1_first", "owner_1_last")

owners_of(form) ==
    OwnerEntry(form, "owner_0_first", "owner_0_last")
      \o (IF ToggleOf(form) = YES
          THEN OwnerEntry(form, "owner_1_first", "owner_1_last") ELSE <<>>)

\* {k: v.strip() for k, v in request.form.items()}
NormalizeForm(raw) == [k \in DOMAIN raw |-> Strip(raw[k])]

\* if "has_owner_1" not in form or not form.get("has_owner_1"): form["has_owner_1"] = "No"
DefaultToggle(form) ==
    IF Falsy(form, "has_owner_1") THEN Put(form, "has_owner_1", NO) ELSE form

\* a form without the default of the toggle
form_of_no_default(raw) == NormalizeForm(raw)

\* the form submit works on, which is also the payload it stores
form_of(raw) == DefaultToggle(NormalizeForm(raw))

\* a rep code that is kept whatever its signature
rep_code_unverified(form) == Strip(Get(form, "rep_code"))

\* the rep code submit keeps: "" when the code does not verify
rep_code_of(form) ==
    LET rep_code == Strip(Get(form, "rep_code"))
        rep_sig == Strip(Get(form, "rep_sig"))
    IN  IF rep_code # <<>> /\ ~verify_rep_code(rep_code, rep_sig) THEN <<>> ELSE rep_code

\* verify_rep_code raises while submit checks the rep code
rep_check_raises(form) ==
    LET rep_code == Strip(Get(form, "rep_code"))
        rep_sig == Strip(Get(form, "rep_sig"))
    IN  rep_code # <<>> /\ verify_rep_code_raises(rep_code, rep_sig)

\* any(f and f.filename for f in bank_files)
has_bank_file(bank_files) == \E i \in 1..Len(bank_files) : bank_files[i].filename # <<>>

\* the error mapping of submit: validate_fields plus the bank-statement rule
submit_errors(form, bank_files) ==
    LET errors == validate_fields(form)
    IN  IF ~has_bank_file(bank_files)
        THEN Put(errors, "bank_files", "At least one bank statement is required")
        ELSE errors

\* db_payload, and the id the store gives the row
db_payload(form, rep_info, id) ==
    LET base == [id |-> id,
                 business_legal_name |-> Get(form, "business_legal_name"),
                 industry |-> Get(form, "industry"),
                 loan_amount |-> loan_amount_of(form),
                 owners |-> owners_of(form),
                 payload |-> form,
                 ein |-> GetOrNone(form, "ein"),
                 business_phone |-> GetOrNone(form, "business_phone"),
                 company_website |-> GetOrNone(form, "company_website")]
    IN  IF rep_info # NoRep
        THEN base @@ [rep_name |-> rep_info.name, rep_email |-> rep_info.email]
        ELSE base

(***************************************************************************)
(* File intake                                                             *)
(***************************************************************************)
BANK_STATEMENT == <<"b", "a", "n", "k", "_", "s", "t", "a", "t", "e", "m", "e", "n", "t">>
VOIDED_CHECK == <<"v", "o", "i", "d", "e", "d", "_", "c", "h", "e", "c", "k">>
ID_DOC == <<"i", "d", "_", "d", "o", "c">>
\* str(UPLOAD_DIR) and the separator after it, as one token
UPLOAD_DIR == <<"{UPLOAD_DIR}/">>

\* a sanitisation that forgets the backslash
sanitize_slash_only(filename) == Replace(filename, "/", "_")

\* f.filename.replace("/", "_").replace("\\", "_")
sanitize(filename) == Replace(Replace(filename, "/", "_"), "\\", "_")

\* UPLOAD_DIR / f"{sid}__{dtype}__{safe}"
dest_of(sid, dtype, safe) ==
    UPLOAD_DIR \o IntToStr(sid) \o <<"_", "_">> \o dtype \o <<"_", "_">> \o safe

\* One pass of the save loops of submit and upload_docs over the file f.  st holds
\* the upload directory, the file table, the paths saved and whether f.save raised.
SaveOne(st, f, sid, dtype, disk) ==
    IF st.raised \/ f.filename = <<>> THEN st
    ELSE IF disk = "fail" THEN [st EXCEPT !.raised = TRUE]
    ELSE LET safe == sanitize(f.filename)
             dest == dest_of(sid, dtype, safe)
         IN  [st EXCEPT
                 !.upload_dir = Put(st.upload_dir, dest, f.content),
                 !.saves = Append(st.saves, dest),
                 !.saved = Append(st.saved, dtype),
                 !.saved_files = Append(st.saved_files, dest),
                 !.application_files = Append(st.application_files,
                     [id |-> Len(st.application_files) + 1,
                      application_id |-> sid,
                      filename |-> safe,
                      storage_path |-> dest,
                      size_bytes |-> Len(f.content),
                      doc_type |-> dtype])]

RECURSIVE SaveBankFiles(_, _, _, _)
SaveBankFiles(st, files, sid, disk) ==
    IF files = <<>> THEN st
    ELSE SaveBankFiles(SaveOne(st, Head(files), sid, BANK_STATEMENT, disk),
                       Tail(files), sid, disk)

(***************************************************************************)
(* State                                                                   *)
(***************************************************************************)
VARIABLES
    applications,       \* the store's table "applications", in insertion order
    application_files,  \* the store's table "application_files", in insertion order
    upload_dir,         \* UPLOAD_DIR: path -> the bytes stored there
    saves,              \* the paths f.save() was called with, in order
    rendered,           \* the submission ids a PDF was rendered for, in order
    outbox,             \* the messages handed to the SMTP server, in order
    EMAIL_ENABLED,      \* bool(SMTP_USER and SMTP_PASS), fixed at start
    workload,           \* the population this run's requests are drawn from
    request,            \* the request handled last
    response,           \* the response it got
    seen,               \* the signatures the responses have shown the client
    vform,              \* validate_fields studied alone: its argument,
    vdone,              \*   whether it was applied,
    verrors,            \*   the mapping it returned,
    vomit               \*   and the required field that was left out of a valid form

server_vars == <<applications, application_files, upload_dir, saves, rendered, outbox,
                 EMAIL_ENABLED, workload, request, response, seen>>
validate_vars == <<vform, vdone, verrors, vomit>>
vars == <<server_vars, validate_vars>>

NoField == "-"
NoRequest == [endpoint |-> "none"]
NoResponse == [status |-> 0]

ServerInit ==
    /\ applications = <<>>
    /\ application_files = <<>>
    /\ upload_dir = EmptyMap
    /\ saves = <<>>
    /\ rendered = <<>>
    /\ outbox = <<>>
    /\ request = NoRequest
    /\ response = NoResponse
    /\ seen = {}

(***************************************************************************)
(* validate_fields as a function: its argument is drawn from                *)
(* ValidateInputs, it is applied, and one required field of a mapping it   *)
(* accepted is removed or emptied and the result validated again.          *)
(***************************************************************************)
ValidateInit ==
    /\ ServerInit
    /\ EMAIL_ENABLED = FALSE
    /\ workload = "none"
    /\ vform \in ValidateInputs
    /\ vdone = FALSE
    /\ verrors = EmptyMap
    /\ vomit = NoField

Validate ==
    /\ ~vdone
    /\ vdone' = TRUE
    /\ verrors' = validate_fields(vform)
    /\ UNCHANGED <<server_vars, vform, vomit>>

OmitField(k) ==
    /\ vdone /\ vomit = NoField /\ DOMAIN verrors = {}
    /\ vform' = Without(vform, k)
    /\ verrors' = validate_fields(vform')
    /\ vomit' = k
    /\ UNCHANGED <<server_vars, vdone>>

BlankField(k) ==
    /\ vdone /\ vomit = NoField /\ DOMAIN verrors = {}
    /\ vform' = Put(vform, k, <<>>)
    /\ verrors' = validate_fields(vform')
    /\ vomit' = k
    /\ UNCHANGED <<server_vars, vdone>>

ValidateNext ==
    \/ Validate
    \/ \E k \in ReqKeys : OmitField(k)
    \/ \E k \in ReqKeys : BlankField(k)

SpecValidate == ValidateInit /\ [][ValidateNext]_vars

(***************************************************************************)
(* POST /submit                                                            *)
(***************************************************************************)
\* the store and the side effects, as a handler reads and leaves them
Current ==
    [applications |-> applications, application_files |-> application_files,
     upload_dir |-> upload_dir, saves |-> saves, rendered |-> rendered,
     outbox |-> outbox, response |-> NoResponse]

ServerError == [status |-> 500]
BadRequest == [status |-> 400]
Redirect(sid) == [status |-> 302, location |-> "thank_you", sid |-> sid]

\* rendering and delivery whose failure reaches the client
notify_unguarded(st, env, rep_info, sid, saved_files) ==
    IF env.pdf = "raise" \/ (EMAIL_ENABLED /\ env.smtp = "fail")
    THEN [st EXCEPT !.response = ServerError]
    ELSE [st EXCEPT !.rendered = Append(@, sid), !.response = Redirect(sid)]

\* lines 699-722: render the PDF, mail it, and redirect whatever became of both.
\* PDF_ENABLED is true in every process that serves requests: without reportlab
\* the module stops at line 133.
notify(st, env, rep_info, sid, saved_files) ==
    LET recipients ==
            <<TEAM_EMAIL>> \o (IF rep_info # NoRep /\ rep_info.email # <<>>
                               THEN <<rep_info.email>> ELSE <<>>)
        message == [to |-> recipients, sid |-> sid, attachments |-> saved_files]
        done == [st EXCEPT !.response = Redirect(sid)]
    IN  IF env.pdf = "raise" THEN done
        ELSE IF EMAIL_ENABLED /\ env.smtp = "ok"
        THEN [done EXCEPT !.rendered = Append(@, sid), !.outbox = Append(@, message)]
        ELSE [done EXCEPT !.rendered = Append(@, sid)]

\* a handler that goes on when the insert returned no row
ins_data_ignored(env) == FALSE

\* not ins.data: the insert returned no row
ins_data_empty(env) == env.insert = "norow"

\* the handler, from the request r to the store, the side effects and the response
submit(r) ==
    LET form == form_of(r.form)
        rep_code == rep_code_of(form)
        rep_info == get_rep_info(rep_code)
        errors == submit_errors(form, r.bank_files)
        sid == Len(applications) + 1
        files == SaveBankFiles(
                     [upload_dir |-> upload_dir, application_files |-> application_files,
                      saves |-> saves, saved |-> <<>>, saved_files |-> <<>>,
                      raised |-> FALSE],
                     r.bank_files, sid, r.env.save)
        stored == [Current EXCEPT
                      !.applications = Append(@, db_payload(form, rep_info, sid)),
                      !.application_files = files.application_files,
                      !.upload_dir = files.upload_dir,
                      !.saves = files.saves]
    IN  IF rep_check_raises(form) THEN [Current EXCEPT !.response = ServerError]
        ELSE IF DOMAIN errors # {}
        THEN [Current EXCEPT !.response =
                 [status |-> 400, template |-> "form.html", errors |-> errors,
                  form |-> form, rep_code |-> rep_code, rep_info |-> rep_info,
                  rep_sig |-> IF rep_code # <<>> THEN sign_rep_code(rep_code) ELSE <<>>]]
        ELSE IF ins_data_empty(r.env) THEN [Current EXCEPT !.response = ServerError]
        ELSE IF files.raised THEN [stored EXCEPT !.response = ServerError]
        ELSE notify(stored, r.env, rep_info, sid, files.saved_files)

Apply(out) ==
    /\ applications' = out.applications
    /\ application_files' = out.application_files
    /\ upload_dir' = out.upload_dir
    /\ saves' = out.saves
    /\ rendered' = out.rendered
    /\ outbox' = out.outbox
    /\ response' = out.response

\* the client reads the hidden rep_sig field of a form it is sent
Learn(resp) ==
    IF "rep_sig" \in DOMAIN resp /\ resp.rep_sig # <<>>
    THEN seen \cup {resp.rep_sig} ELSE seen

MaxApps == 2
MaxFiles == 2

Submit(r) ==
    /\ Len(applications) < MaxApps
    /\ request' = r
    /\ Apply(submit(r))
    /\ seen' = Learn(response')
    /\ UNCHANGED <<EMAIL_ENABLED, workload, validate_vars>>

(***************************************************************************)
(* POST /upload-docs                                                       *)
(***************************************************************************)
\* request.form.get("sid", type=int): the integer, or 0 for None; both are falsy
sid_of(form) ==
    IF "sid" \notin DOMAIN form THEN 0
    ELSE LET v == Strip(form["sid"])
             neg == v # <<>> /\ v[1] = "-"
             body == IF v # <<>> /\ v[1] \in {"+", "-"} THEN Tail(v) ELSE v
         IN  IF body = <<>> \/ \E i \in 1..Len(body) : body[i] \notin Digit THEN 0
             ELSE IF neg THEN 0 - ParseInt(body) ELSE ParseInt(body)

NoFile == [filename |-> <<>>, content |-> <<>>]
\* request.files.get(field): None counts as a file without a name
file_of(files, field) == IF field \in DOMAIN files THEN files[field] ELSE NoFile

upload_docs(r) ==
    LET sid == sid_of(r.form)
        st0 == [upload_dir |-> upload_dir, application_files |-> application_files,
                saves |-> saves, saved |-> <<>>, saved_files |-> <<>>, raised |-> FALSE]
        st1 == SaveOne(st0, file_of(r.files, "voided_check"), sid, VOIDED_CHECK, r.env.save)
        st2 == SaveOne(st1, file_of(r.files, "id_doc"), sid, ID_DOC, r.env.save)
        stored == [Current EXCEPT
                      !.application_files = st2.application_files,
                      !.upload_dir = st2.upload_dir,
                      !.saves = st2.saves]
    IN  IF sid = 0 THEN [Current EXCEPT !.response = BadRequest]
        ELSE IF st2.raised THEN [stored EXCEPT !.response = ServerError]
        ELSE [stored EXCEPT !.response =
                 [status |-> 200, template |-> "thank_you.html", sid |-> sid,
                  uploaded |-> st2.saved]]

UploadDocs(r) ==
    /\ Len(application_files) < MaxFiles
    /\ request' = r
    /\ Apply(upload_docs(r))
    /\ UNCHANGED <<EMAIL_ENABLED, workload, seen, validate_vars>>

(***************************************************************************)
(* GET /                                                                   *)
(***************************************************************************)
\* request.args.get(name, default)
Arg(args, name, default) == IF name \in DOMAIN args THEN args[name] ELSE default

home(r) ==
    LET rep_code == Strip(Arg(r.args, "rep", <<>>))
        rep_info == get_rep_info(rep_code)
        rep_sig == IF rep_code # <<>> THEN sign_rep_code(rep_code) ELSE <<>>
    IN  [Current EXCEPT !.response =
            [status |-> 200, template |-> "form.html", rep_code |-> rep_code,
             rep_info |-> rep_info, rep_sig |-> rep_sig]]

Home(r) ==
    /\ request' = r
    /\ Apply(home(r))
    /\ seen' = Learn(response')
    /\ UNCHANGED <<EMAIL_ENABLED, workload, validate_vars>>

(***************************************************************************)
(* GET /api/submissions                                                    *)
(***************************************************************************)
\* int(s) for strings of a sign and decimal digits, with whitespace around
\* them: whether it parses, and the value.  (int also reads digit-group
\* underscores; the requests use none.)
IntOf(s) ==
    LET v == Strip(s)
        neg == v # <<>> /\ v[1] = "-"
        body == IF v # <<>> /\ v[1] \in {"+", "-"} THEN Tail(v) ELSE v
    IN  IF body = <<>> \/ \E i \in 1..Len(body) : body[i] \notin Digit
        THEN [ok |-> FALSE, value |-> 0]
        ELSE [ok |-> TRUE, value |-> IF neg THEN 0 - ParseInt(body) ELSE ParseInt(body)]

\* the columns of the select list; a column that was never set is NULL.
\* (created_at is set by the store and is not part of this model.)
Selected(row) ==
    [id |-> row.id,
     business_legal_name |-> row.business_legal_name,
     industry |-> row.industry,
     loan_amount |-> row.loan_amount,
     owners |-> row.owners,
     payload |-> row.payload,
     company_website |-> row.company_website,
     rep_name |-> IF "rep_name" \in DOMAIN row THEN row.rep_name ELSE None,
     rep_email |-> IF "rep_email" \in DOMAIN row THEN row.rep_email ELSE None]

\* .order("id", desc=True): the table holds its rows in ascending id order
OrderByIdDesc(rows) == [i \in 1..Len(rows) |-> rows[Len(rows) + 1 - i]]

\* .range(start, end): the rows start..end, counted from 0, for 0 <= start <= end
Range(rows, start, end) ==
    SubSeq(rows, start + 1, IF end + 1 < Len(rows) THEN end + 1 ELSE Len(rows))

\* if rep_filter: rep_info = get_rep_info(rep_filter); if rep_info: query.eq(...)
filter_by_rep(rows, rep_filter) ==
    IF rep_filter # <<>> /\ get_rep_info(rep_filter) # NoRep
    THEN SelectSeq(rows, LAMBDA row : row.rep_name = get_rep_info(rep_filter).name)
    ELSE rows

api_submissions(r) ==
    LET limit_arg == IntOf(Arg(r.args, "limit", <<"1", "0", "0">>))
        offset_arg == IntOf(Arg(r.args, "offset", <<"0">>))
        parsed == limit_arg.ok /\ offset_arg.ok
        limit == IF parsed THEN limit_arg.value ELSE 100
        offset == IF parsed THEN offset_arg.value ELSE 0
        rep_filter == Strip(Arg(r.args, "rep", <<>>))
        rows == [i \in DOMAIN applications |-> Selected(applications[i])]
    IN  [Current EXCEPT !.response =
            [status |-> 200,
             rows |-> Range(OrderByIdDesc(filter_by_rep(rows, rep_filter)),
                            offset, offset + limit - 1)]]

ApiSubmissions(r) ==
    /\ request' = r
    /\ Apply(api_submissions(r))
    /\ UNCHANGED <<EMAIL_ENABLED, workload, seen, validate_vars>>

(***************************************************************************)
(* Requests                                                                *)
(***************************************************************************)
EnvOK == [insert |-> "row", save |-> "ok", pdf |-> "ok", smtp |-> "ok"]
\* what the store, the disk, reportlab and the SMTP server can answer
Envs == [insert : {"row", "norow"}, save : {"ok", "fail"},
         pdf : {"ok", "raise"}, smtp : {"ok", "fail"}]

SubmitRequest(form, bank_files, env) ==
    [endpoint |-> "submit", form |-> form, bank_files |-> bank_files, env |-> env]
UploadRequest(form, files, env) ==
    [endpoint |-> "upload-docs", form |-> form, files |-> files, env |-> env]

File(name, content) == [filename |-> name, content |-> content]
STMT == <<"s", ".", "p", "d", "f">>
A_SLASH_B == <<"a", "/", "b">>
A_BACKSLASH_B == <<"a", "\\", "b">>
A_UNDERSCORE_B == <<"a", "_", "b">>
BYTES_1 == <<"x">>
BYTES_2 == <<"y", "y">>
OneFile == <<File(STMT, BYTES_1)>>

TOM == <<"t", "o", "m">>
TROY == <<"t", "r", "o", "y">>
BOB == <<"b", "o", "b">>
TOM_PADDED == <<" ", "T", "o", "m", " ">>

RepPair(code, sig) == [k \in {"rep_code", "rep_sig"} |-> IF k = "rep_code" THEN code ELSE sig]

\* the hidden rep fields a client can send: none, a link's own pair, a pair
\* spelled differently, a code with another code's signature, with no signature,
\* with a signature that is not ASCII, a signed code the directory does not
\* hold, and a signature without a code
RepFields ==
    {EmptyMap,
     RepPair(TOM, sign_rep_code(TOM)),
     RepPair(TOM_PADDED, <<" ">> \o sign_rep_code(TOM) \o <<"\n">>),
     RepPair(TROY, sign_rep_code(TROY)),
     RepPair(TOM, sign_rep_code(TROY)),
     RepPair(TROY, <<"0">>),
     RepPair(TOM, <<>>),
     RepPair(TOM, <<E_ACUTE>>),
     RepPair(BOB, sign_rep_code(BOB)),
     RepPair(<<>>, sign_rep_code(TOM))}

\* a form validation rejects: the EIN is missing
InvalidForm == Without(BaseForm, "ein")

LoanStrings ==
    {<<"2", "5">>, <<"-", "1">>, <<"1", ".", "5">>, <<"-", ".", "5">>, <<"x">>,
     <<"1", ".", "2", ".">>, <<"-">>, <<>>}

\* the forms of the "form" population: loan amounts, owners and toggles of every
\* kind, values with surrounding whitespace, and forms validation rejects
RawForms ==
    {BaseForm}
      \cup {Put(BaseForm, "loan_amount", v) : v \in LoanStrings}
      \cup Vary(BaseForm @@ Owner1Fields, "has_owner_1",
                {YES, NO, <<" ", "Y", "e", "s", " ">>, <<"y", "e", "s">>, <<>>})
      \cup {Put(BaseForm, "owner_0_first", MARY_ANN),
            Put(BaseForm, "owner_0_first", <<" ", " ">> \o JANE \o <<"\t">>),
            Put(BaseForm, "owner_0_first", <<" ", " ">>),
            Put(BaseForm, "has_owner_1", YES),
            Put(Without(BaseForm @@ Owner1Fields, "owner_1_last"), "has_owner_1", YES),
            Put(BaseForm, "business_phone", PHONE_OK),
            Put(BaseForm, "owner_0_ssn", SSN_AREA_666),
            InvalidForm}

\* the bank_files lists of the "files" population
FileLists ==
    {<<>>,
     OneFile,
     <<File(<<>>, BYTES_1)>>,
     <<File(STMT, BYTES_1), File(STMT, BYTES_2)>>,
     <<File(A_SLASH_B, BYTES_1), File(A_BACKSLASH_B, BYTES_2)>>,
     <<File(<<>>, <<>>), File(A_UNDERSCORE_B, BYTES_2)>>}

DiskFails == [EnvOK EXCEPT !.save = "fail"]

UploadFiles ==
    {EmptyMap,
     [f \in {"voided_check"} |-> File(A_SLASH_B, BYTES_1)],
     [f \in {"voided_check", "id_doc"} |->
         IF f = "id_doc" THEN File(A_BACKSLASH_B, BYTES_1) ELSE File(A_UNDERSCORE_B, BYTES_2)],
     [f \in {"voided_check", "id_doc"} |->
         IF f = "id_doc" THEN File(STMT, BYTES_1) ELSE File(<<>>, <<>>)]}

\* the sid parameters of upload-docs: ids the store may or may not hold, zero,
\* text that is no integer, and no parameter
UploadSids ==
    {[k \in {"sid"} |-> NatToStr(n)] : n \in {0, 1, MaxApps}}
      \cup {[k \in {"sid"} |-> <<"x">>], EmptyMap}

HomeRequest(args) == [endpoint |-> "home", args |-> args]
ApiRequest(args) == [endpoint |-> "api-submissions", args |-> args]

\* one query parameter
Param(name, value) == [k \in {name} |-> value]

\* the signatures a client can make up without the secret
Guesses == {<<"0">>}

\* the paging parameters of /api/submissions: none, a page of one row after
\* the first, and a limit that is no integer
Pages ==
    {EmptyMap,
     Param("limit", <<"1">>) @@ Param("offset", <<"1">>),
     Param("limit", <<"x">>) @@ Param("offset", <<"1">>)}

\* the rep parameters of /api/submissions: none, empty, a rep's code, the code
\* spelled differently, and a code the directory does not hold
RepParams ==
    {EmptyMap, Param("rep", <<>>), Param("rep", TOM),
     Param("rep", <<" ", "T", "O", "M", " ">>), Param("rep", BOB)}

Workloads == {"rep", "form", "files", "env", "client", "api"}

SubmitRequests(w) ==
    CASE w = "rep" ->
           {SubmitRequest(f @@ rf, OneFile, EnvOK) :
                f \in {BaseForm, InvalidForm}, rf \in RepFields}
      [] w = "form" ->
           {SubmitRequest(f, OneFile, EnvOK) : f \in RawForms}
      [] w = "files" ->
           {SubmitRequest(BaseForm, fl, EnvOK) : fl \in FileLists}
             \cup {SubmitRequest(BaseForm, OneFile, DiskFails)}
      [] w = "env" ->
           {SubmitRequest(BaseForm @@ rf, OneFile, env) :
                rf \in {EmptyMap, RepPair(TOM, sign_rep_code(TOM))}, env \in Envs}
             \cup {SubmitRequest(f, fl, env) :
                      f \in {InvalidForm}, fl \in {OneFile, <<>>},
                      env \in {EnvOK, DiskFails, [EnvOK EXCEPT !.insert = "norow"]}}
             \cup {SubmitRequest(BaseForm, <<>>, EnvOK)}
      [] w = "client" ->
           {SubmitRequest(f @@ RepPair(code, sig), OneFile, EnvOK) :
                f \in {BaseForm, InvalidForm}, code \in {TOM, TROY},
                sig \in seen \cup Guesses}
      [] w = "api" ->
           {SubmitRequest(BaseForm @@ rf, OneFile, EnvOK) :
                rf \in {EmptyMap, RepPair(TOM, sign_rep_code(TOM)),
                        RepPair(TROY, sign_rep_code(TROY))}}
      [] OTHER -> {}

\* the client of the "client" population asks for the form directly, through
\* a rep's link, through the link spelled differently, and through the link
\* with another rep's code in it
HomeRequests(w) ==
    CASE w = "client" ->
           {HomeRequest(a) :
                a \in {EmptyMap, Param("rep", TOM), Param("rep", TOM_PADDED),
                       Param("rep", TROY)}}
      [] OTHER -> {}

ApiRequests(w) ==
    CASE w = "api" -> {ApiRequest(rp @@ pg) : rp \in RepParams, pg \in Pages}
      [] OTHER -> {}

UploadRequests(w) ==
    CASE w = "files" ->
           {UploadRequest(sid, fs, EnvOK) : sid \in UploadSids, fs \in UploadFiles}
             \cup {UploadRequest([k \in {"sid"} |-> <<"1">>], fs, DiskFails) :
                      fs \in UploadFiles \ {EmptyMap}}
      [] OTHER -> {}

(***************************************************************************)
(* The server                                                              *)
(***************************************************************************)
Init ==
    /\ ServerInit
    /\ EMAIL_ENABLED \in BOOLEAN
    /\ workload \in Workloads
    /\ vform = EmptyMap
    /\ vdone = FALSE
    /\ verrors = EmptyMap
    /\ vomit = NoField

Next ==
    \/ \E r \in SubmitRequests(workload) : Submit(r)
    \/ \E r \in UploadRequests(workload) : UploadDocs(r)
    \/ \E r \in HomeRequests(workload) : Home(r)
    \/ \E r \in ApiRequests(workload) : ApiSubmissions(r)

Spec == Init /\ [][Next]_vars

(***************************************************************************)
(* Properties                                                              *)
(***************************************************************************)
StoreVars == <<applications, application_files, upload_dir, saves, rendered, outbox>>

\* the error mapping submit computes for the request r
ErrorsOf(r) == submit_errors(form_of(r.form), r.bank_files)

\* the request r carries a rep code whose signature is not the MAC of the code
Tampered(r) ==
    LET code == Strip(Get(r.form, "rep_code"))
        sig == Strip(Get(r.form, "rep_sig"))
    IN  code # <<>> /\ sig # sign_rep_code(code)

\* the request r without its rep fields
Direct(r) == [r EXCEPT !.form = Without(Without(r.form, "rep_code"), "rep_sig")]

Submitted == request.endpoint = "submit" /\ response.status = 302

\* C1: a POST /submit whose error mapping is not empty is answered with the form
\* and HTTP 400, and changes neither the store, the upload directory, the PDFs
\* rendered nor the mail sent.
C1_RejectedWithoutEffect ==
    [][(request'.endpoint = "submit" /\ DOMAIN ErrorsOf(request') # {})
         => /\ response'.status = 400
            /\ response'.template = "form.html"
            /\ UNCHANGED StoreVars]_vars

\* C2: a POST /submit with a rep code whose signature does not match is handled
\* as the same request without a rep code: the same status and errors, and on
\* success no rep_name, no rep_email and the team as the only recipient.
C2_MismatchIsDirect ==
    [][(request'.endpoint = "submit" /\ Tampered(request'))
         => LET direct == submit(Direct(request'))
            IN  /\ response'.status = direct.response.status
                /\ response'.status = 400
                     => response'.errors = direct.response.errors
                /\ response'.status = 302
                     => /\ "rep_name" \notin DOMAIN applications'[response'.sid]
                        /\ "rep_email" \notin DOMAIN applications'[response'.sid]
                        /\ \A i \in DOMAIN outbox' :
                              outbox'[i].sid = response'.sid
                                => outbox'[i].to = <<TEAM_EMAIL>>]_vars

\* C3: leaving out (or emptying) one required field of a mapping validate_fields
\* accepts makes it return an error for exactly that field.
C3_OmittedAlone == vomit # NoField => DOMAIN verrors = {vomit}

C3_Witness ==
    /\ vomit = "own_real_estate"
    /\ "residence_tenure" \notin DOMAIN vform
    /\ DOMAIN verrors = {"own_real_estate"}

\* C4: once validation, the insert and the file saves succeeded, the response
\* is the redirect to the thank-you page of the new id, and the store and the
\* upload directory are what they are when rendering and delivery succeed,
\* whatever rendering and delivery did.
C4_NotifyFailureSwallowed ==
    [][(/\ request'.endpoint = "submit"
        /\ ~rep_check_raises(form_of(request'.form))
        /\ DOMAIN ErrorsOf(request') = {}
        /\ request'.env.insert = "row" /\ request'.env.save = "ok")
         => LET ok == submit([request' EXCEPT !.env.pdf = "ok", !.env.smtp = "ok"])
            IN  /\ response' = Redirect(Len(applications) + 1)
                /\ response' = ok.response
                /\ applications' = ok.applications
                /\ application_files' = ok.application_files
                /\ upload_dir' = ok.upload_dir]_vars

C4_Witness ==
    /\ Submitted
    /\ EMAIL_ENABLED
    /\ request.env.pdf = "ok" /\ request.env.smtp = "fail"
    /\ response.sid = Len(applications)
    /\ rendered # <<>> /\ outbox = <<>>

\* C5: the loan_amount of every stored application is not negative: it is the
\* value of the loan_amount field when that parses, and 0 otherwise.
C5_LoanAmountNonNegative ==
    \A i \in DOMAIN applications :
        LET s == Get(applications[i].payload, "loan_amount")
        IN  /\ applications[i].loan_amount >= 0
            /\ applications[i].loan_amount =
                   (IF s # <<>> /\ ParseFloat(s).ok THEN ParseFloat(s).value ELSE 0)

\* C6: no two file saves write to the same path.
C6_NoPathSavedTwice ==
    \A i, j \in DOMAIN saves : i # j => saves[i] # saves[j]

\* C7 as claimed: the stored payload is the request's field mapping, verbatim.
C7_PayloadVerbatim ==
    Submitted => applications[response.sid].payload = request.form

\* C7 as the code has it: the stored payload is the request's field mapping
\* with every value trimmed and has_owner_1 set to "No" when it is absent or
\* empty; it has the request's keys and has_owner_1, and no other.
C7_PayloadTrimmedWithToggle ==
    Submitted =>
        LET payload == applications[response.sid].payload
            sent == request.form
        IN  /\ DOMAIN payload = DOMAIN sent \cup {"has_owner_1"}
            /\ \A k \in DOMAIN sent \ {"has_owner_1"} : payload[k] = Strip(sent[k])
            /\ payload["has_owner_1"] =
                   (IF "has_owner_1" \in DOMAIN sent /\ Strip(sent["has_owner_1"]) # <<>>
                    THEN Strip(sent["has_owner_1"]) ELSE NO)

C7_Witness ==
    /\ Submitted
    /\ "has_owner_1" \notin DOMAIN request.form
    /\ applications[response.sid].payload["has_owner_1"] = NO

\* C8: every stored application has rep_name and rep_email both or neither, and
\* has them exactly when the rep code it was submitted with carries the MAC of
\* the code and names, lowercased and trimmed, a rep of the directory, whose
\* name and email they then are.
C8_RepAttribution ==
    \A i \in DOMAIN applications :
        LET app == applications[i]
            code == Strip(Get(app.payload, "rep_code"))
            sig == Strip(Get(app.payload, "rep_sig"))
            key == Strip(Lower(code))
            attributed == /\ code # <<>>
                          /\ sig = sign_rep_code(code)
                          /\ key \in DOMAIN SALES_REPS
        IN  /\ "rep_name" \in DOMAIN app <=> "rep_email" \in DOMAIN app
            /\ "rep_name" \in DOMAIN app <=> attributed
            /\ attributed => /\ app.rep_name = SALES_REPS[key].name
                             /\ app.rep_email = SALES_REPS[key].email

C8_Witness ==
    \E i \in DOMAIN applications :
        /\ GetOrNone(applications[i].payload, "rep_code") = <<"T", "o", "m">>
        /\ applications[i].rep_name = SALES_REPS[TOM].name
        /\ applications[i].rep_email = SALES_REPS[TOM].email

\* C9: the owners of every stored application are owner 0's "first last",
\* followed by owner 1's when the toggle is "Yes"; one entry otherwise,
\* whatever the owner_1_* fields hold, and never none.
C9_OwnersList ==
    \A i \in DOMAIN applications :
        LET p == applications[i].payload
            owners == applications[i].owners
            name(first, last) == Get(p, first) \o <<" ">> \o Get(p, last)
        IN  /\ Len(owners) >= 1
            /\ owners[1] = name("owner_0_first", "owner_0_last")
            /\ Get(p, "owner_0_first") # <<>> /\ Get(p, "owner_0_last") # <<>>
            /\ IF Get(p, "has_owner_1") = YES
               THEN /\ Len(owners) = 2
                    /\ owners[2] = name("owner_1_first", "owner_1_last")
                    /\ Get(p, "owner_1_first") # <<>> /\ Get(p, "owner_1_last") # <<>>
               ELSE Len(owners) = 1

C9_Witness ==
    \E i \in DOMAIN applications :
        /\ applications[i].payload["has_owner_1"] = NO
        /\ "owner_1_first" \in DOMAIN applications[i].payload
        /\ applications[i].owners = <<JANE \o <<" ">> \o DOE>>

WellFormedSSN(v) ==
    /\ Len(v) = 11
    /\ v[4] = "-" /\ v[7] = "-"
    /\ \A i \in {1, 2, 3, 5, 6, 8, 9, 10, 11} : v[i] \in AsciiDigit
    /\ SubSeq(v, 1, 3) \notin {<<"0", "0", "0">>, <<"6", "6", "6">>}
    /\ v[1] # "9"
    /\ SubSeq(v, 5, 6) # <<"0", "0">>
    /\ SubSeq(v, 8, 11) # <<"0", "0", "0", "0">>

\* C11: validate_fields reports "Invalid SSN" on owner_0_ssn exactly when the
\* value is not empty and is not a well-formed SSN; an empty or absent value
\* gets "Required" instead, so the key never carries the pattern error then.
C11_SSNPatternError ==
    vdone =>
        LET v == Get(vform, "owner_0_ssn")
            reported == IF "owner_0_ssn" \in DOMAIN verrors
                        THEN verrors["owner_0_ssn"] ELSE "none"
        IN  IF v = <<>> THEN reported = "Required"
            ELSE reported = "Invalid SSN (###-##-####)" <=> ~WellFormedSSN(v)

\* the named files of the request r, each with the doc type of its slot, in the
\* order the handlers take them
Uploads(r) ==
    LET named(fs) == SelectSeq(fs, LAMBDA f : f.filename # <<>>)
        slot(field, dtype) ==
            IF field \in DOMAIN r.files /\ r.files[field].filename # <<>>
            THEN <<[name |-> r.files[field].filename, doc_type |-> dtype]>> ELSE <<>>
    IN  IF r.endpoint = "submit"
        THEN [i \in DOMAIN named(r.bank_files) |->
                 [name |-> named(r.bank_files)[i].filename, doc_type |-> BANK_STATEMENT]]
        ELSE slot("voided_check", VOIDED_CHECK) \o slot("id_doc", ID_DOC)

\* the name with every "/" and "\" replaced by "_"
NoSeparators(name) ==
    [i \in DOMAIN name |-> IF name[i] \in {"/", "\\"} THEN "_" ELSE name[i]]

\* C12: the file records a POST /submit or POST /upload-docs adds are those of
\* its named files, in order: each has the doc type of its slot, the uploaded
\* name with "/" and "\" replaced by "_" (so no separator is left), and the
\* path {id}__{docType}__{name} in the upload directory, where the file is; a
\* request that is answered without an error adds one for every named file.
C12_StorageKey ==
    [][request'.endpoint \in {"submit", "upload-docs"} =>
         LET n == Len(application_files)
             new == SubSeq(application_files', n + 1, Len(application_files'))
             ups == Uploads(request')
             id == IF request'.endpoint = "submit"
                   THEN Len(applications) + 1 ELSE sid_of(request'.form)
         IN  /\ SubSeq(application_files', 1, n) = application_files
             /\ Len(new) <= Len(ups)
             /\ response'.status \in {200, 302} => Len(new) = Len(ups)
             /\ \A i \in DOMAIN new :
                   /\ new[i].doc_type = ups[i].doc_type
                   /\ new[i].filename = NoSeparators(ups[i].name)
                   /\ \A j \in DOMAIN new[i].filename :
                         new[i].filename[j] \notin {"/", "\\"}
                   /\ new[i].application_id = id
                   /\ new[i].storage_path =
                          UPLOAD_DIR \o IntToStr(id) \o <<"_", "_">> \o new[i].doc_type
                            \o <<"_", "_">> \o new[i].filename
                   /\ new[i].storage_path \in DOMAIN upload_dir'
                   /\ new[i].storage_path \in {saves'[k] : k \in DOMAIN saves'}]_vars

C12_Witness ==
    \E i, j \in DOMAIN application_files :
        /\ request.endpoint = "upload-docs"
        /\ application_files[i].doc_type = ID_DOC
        /\ application_files[i].filename = A_UNDERSCORE_B
        /\ request.files["id_doc"].filename = A_BACKSLASH_B
        /\ application_files[j].doc_type = VOIDED_CHECK
        /\ application_files[i].storage_path \in DOMAIN upload_dir

\* C13: a POST /submit that passes validation and whose insert returns no row
\* is answered with HTTP 500, not with the redirect, and writes no file, inserts
\* no file record, renders no PDF and sends no mail.
C13_InsertFailureStops ==
    [][(/\ request'.endpoint = "submit"
        /\ ~rep_check_raises(form_of(request'.form))
        /\ DOMAIN ErrorsOf(request') = {}
        /\ request'.env.insert = "norow")
         => /\ response' = ServerError
            /\ UNCHANGED <<upload_dir, saves, application_files, rendered, outbox>>]_vars

C13_Witness ==
    /\ request.endpoint = "submit"
    /\ request.env = [EnvOK EXCEPT !.insert = "norow"]
    /\ DOMAIN ErrorsOf(request) = {}
    /\ response.status = 500
    /\ applications = <<>> /\ upload_dir = EmptyMap

\* C14: a request adds one application record when it is a POST /submit that
\* ends in the redirect and none otherwise, and the records there are stay as
\* they are, in their places.
C14_OneRecordPerRedirect ==
    [][/\ Len(applications') =
              Len(applications)
                + (IF request'.endpoint = "submit" /\ response'.status = 302
                   THEN 1 ELSE 0)
       /\ SubSeq(applications', 1, Len(applications)) = applications]_vars

\* C15: every file record, and every file of the upload directory, belongs to
\* an application the store holds.
C15_FilesReferToApplications ==
    LET ids == {applications[i].id : i \in DOMAIN applications}
    IN  /\ \A i \in DOMAIN application_files :
              application_files[i].application_id \in ids
        /\ \A path \in DOMAIN upload_dir :
              \E i \in DOMAIN application_files :
                  /\ application_files[i].storage_path = path
                  /\ application_files[i].application_id \in ids

\* C16: the client of the "client" population was given Tom's referral link
\* and does not know the secret: the signatures it submits are ones a response
\* has shown it, or made up.  No application it gets stored is attributed to a
\* rep other than Tom.
C16_NoForeignAttribution ==
    workload = "client" =>
        \A i \in DOMAIN applications :
            "rep_name" \in DOMAIN applications[i]
              => applications[i].rep_name = SALES_REPS[TOM].name

\* the form of the 400 response resubmitted: the fields as they were sent back,
\* the hidden rep fields as the response has them
Resubmitted(resp) == RepPair(resp.rep_code, resp.rep_sig) @@ resp.form

\* C17: in the form a POST /submit is rejected with (HTTP 400), a rep code
\* whose signature failed verification comes back as an empty code with no rep
\* info and an empty signature, and submitting that form again is a direct
\* submission; a code that verified comes back as it was, with its rep info
\* and a signature that verifies.
C17_RejectedFormRepFields ==
    (request.endpoint = "submit" /\ response.status = 400) =>
        LET code == Strip(Get(request.form, "rep_code"))
            sig == Strip(Get(request.form, "rep_sig"))
            again == form_of(Resubmitted(response))
        IN  /\ (code # <<>> /\ sig # sign_rep_code(code))
                 => /\ response.rep_code = <<>>
                    /\ response.rep_info = NoRep
                    /\ response.rep_sig = <<>>
                    /\ ~rep_check_raises(again)
                    /\ rep_code_of(again) = <<>>
                    /\ get_rep_info(rep_code_of(again)) = NoRep
            /\ (code # <<>> /\ sig = sign_rep_code(code))
                 => /\ response.rep_code = code
                    /\ response.rep_info = get_rep_info(code)
                    /\ response.rep_sig = sign_rep_code(code)
                    /\ ~rep_check_raises(again)
                    /\ rep_code_of(again) = code

C17_Witness ==
    /\ request.endpoint = "submit" /\ response.status = 400
    /\ Get(request.form, "rep_code") = TOM
    /\ Get(request.form, "rep_sig") = sign_rep_code(TROY)
    /\ response.rep_code = <<>> /\ response.rep_sig = <<>>
    /\ response.rep_info = NoRep

\* C18: the rows GET /api/submissions returns for a rep parameter that is not
\* empty all carry the name of the rep the parameter names, lowercased and
\* trimmed, and there are none when it names no rep of the directory; the rows
\* are always in strictly descending id order.
C18_RepFilterAndOrder ==
    request.endpoint = "api-submissions" =>
        LET rows == response.rows
            rep == Strip(Arg(request.args, "rep", <<>>))
            key == Strip(Lower(rep))
        IN  /\ rep # <<>> =>
                 IF key \in DOMAIN SALES_REPS
                 THEN \A i \in DOMAIN rows : rows[i].rep_name = SALES_REPS[key].name
                 ELSE rows = <<>>
            /\ \A i, j \in DOMAIN rows : i < j => rows[i].id > rows[j].id

====
